---- MODULE Spec2Model ----
(***************************************************************************)
(* Model of the chunked-access loops of data_type/data_optimization.ipynb: *)
(*   - the fixed-size windowed raster read (cell "read chunk by chunk"),   *)
(*   - the block_windows raster read,                                      *)
(*   - the Parquet iter_batches loop counting 'forest' rows per batch.     *)
(* Each behaviour runs one of the three cells; `cell` says which.          *)
(***************************************************************************)
EXTENDS Integers, Sequences, FiniteSets, TLC

\* ---------------------------------------------------------------- bounds
MaxDim == 3      \* image width and height range over 1..MaxDim
MaxChunk == 4    \* chunk / block sizes range over 1..MaxChunk
MaxBands == 2    \* src.count ranges over 1..MaxBands
MaxRows == 4     \* the Parquet file holds 0..MaxRows rows
MaxBatch == 3    \* batch_size ranges over 1..MaxBatch

VARIABLES
    cell,          \* which notebook cell runs: "fixed", "block" or "parquet"
    pc,            \* position in the cell
    \* -- raster cells
    width, height,               \* src.width, src.height
    count,                       \* src.count, the number of bands
    x_chunk_size, y_chunk_size,  \* fixed loop: columns / rows per chunk
    row_iter, col_iter,          \* next value of the two range() iterators
    start_row, end_row, start_col, end_col,
    blockxsize, blockysize,      \* block loop: the file's internal block shape
    block_iter,                  \* block loop: blocks already yielded
    ji,                          \* block loop: chunk coordinates
    window,                      \* option: <<>> unbound, <<w>> the current Window
    data,                        \* option: <<>> unbound, <<a>> the array bound to `data`
    held,                        \* arrays alive (allocated and still referenced)
    nreads,                      \* number of src.read calls started
    reads,                       \* history: the windows passed to src.read, in order
    \* -- parquet cell
    dataset,                     \* the file's 'type' column, one tag per row
    batch_size,
    batch_iter,                  \* batches already yielded by iter_batches
    n, batch, column, n_forest,  \* options, as bound by the loop
    exc,                         \* option: the exception that ended the cell
    calls,                       \* history: <<operation, batch index>> in order
    \* -- both
    stdout                       \* what the cell printed, in order

rasterVars == <<width, height, count, x_chunk_size, y_chunk_size, row_iter, col_iter,
                start_row, end_row, start_col, end_col, blockxsize, blockysize,
                block_iter, ji, window, data, held, nreads, reads>>
parquetVars == <<dataset, batch_size, batch_iter, n, batch, column, n_forest,
                 exc, calls>>
vars == <<cell, pc, rasterVars, parquetVars, stdout>>

\* ---------------------------------------------------------------- helpers
Min(a, b) == IF a < b THEN a ELSE b

None == <<>>
Some(v) == <<v>>
Val(o) == o[1]

\* rasterio.windows.Window(col_off, row_off, width, height)
Window(col_off, row_off, w, h) ==
    [col_off |-> col_off, row_off |-> row_off, width |-> w, height |-> h]

\* The array src.read returns for a window: one payload, identified by the
\* ordinal of the read that allocated it. bands = 0 marks a single-band read,
\* read(1, ...), of shape (rows, columns); read(...) returns all bands, of
\* shape (bands, rows, columns).
Array(id, bands, win) == [id |-> id, bands |-> bands, win |-> win]
Shape(a) == IF a.bands = 0 THEN <<a.win.height, a.win.width>>
            ELSE <<a.bands, a.win.height, a.win.width>>

\* The array a preceding cell may have left bound to `data`
\* (the whole-band read made for comparison).
PriorArray(w, h) == Array(0, 0, Window(0, 0, w, h))

\* Mutant: the previous array stays referenced (e.g. appended to a list).
RebindKeepsOld(alive, old, new) == alive \cup {new}

\* Rebinding a name drops the reference to the array it held before.
Rebind(alive, old, new) == (alive \ {a \in alive : old = Some(a)}) \cup {new}

\* ------------------------------------------- names of the cells not run
ParquetIdle ==
    /\ dataset = <<>> /\ batch_size = 1 /\ batch_iter = 0
    /\ n = None /\ batch = None /\ column = None /\ n_forest = None
    /\ exc = None /\ calls = <<>>

BlockIdle ==
    /\ blockxsize = 1 /\ blockysize = 1 /\ block_iter = 0 /\ ji = None

FixedIdle ==
    /\ x_chunk_size = 1 /\ y_chunk_size = 1 /\ row_iter = 0 /\ col_iter = 0
    /\ start_row = None /\ end_row = None /\ start_col = None /\ end_col = None

\* ------------------------------------------------ fixed-size windowed read
\* with rasterio.open(cog_path) as src: width = src.width; height = src.height
InitFixed ==
    /\ cell = "fixed" /\ pc = "for_row"
    /\ width \in 1..MaxDim /\ height \in 1..MaxDim /\ count = 1
    /\ x_chunk_size \in 1..MaxChunk /\ y_chunk_size \in 1..MaxChunk
    /\ row_iter = 0 /\ col_iter = 0
    /\ start_row = None /\ end_row = None /\ start_col = None /\ end_col = None
    /\ window = None
    /\ data \in {None, Some(PriorArray(width, height))}
    /\ held = {a \in {PriorArray(width, height)} : data = Some(a)}
    /\ nreads = 0 /\ reads = <<>> /\ stdout = <<>>
    /\ BlockIdle /\ ParquetIdle

\* for start_row in range(0, height, y_chunk_size):
ForRow ==
    /\ cell = "fixed" /\ pc = "for_row"
    /\ IF row_iter < height
       THEN /\ start_row' = Some(row_iter)
            /\ row_iter' = row_iter + y_chunk_size
            /\ pc' = "end_row"
       ELSE /\ pc' = "done"
            /\ UNCHANGED <<start_row, row_iter>>
    /\ UNCHANGED <<cell, width, height, count, x_chunk_size, y_chunk_size, col_iter,
                   end_row, start_col, end_col, blockxsize, blockysize,
                   block_iter, ji, window, data, held, nreads, reads,
                   parquetVars, stdout>>

\* end_row = min(start_row + y_chunk_size, height)
EndRow ==
    /\ cell = "fixed" /\ pc = "end_row"
    /\ end_row' = Some(Min(Val(start_row) + y_chunk_size, height))
    /\ col_iter' = 0          \* the inner range() is created afresh
    /\ pc' = "for_col"
    /\ UNCHANGED <<cell, width, height, count, x_chunk_size, y_chunk_size, row_iter,
                   start_row, start_col, end_col, blockxsize, blockysize,
                   block_iter, ji, window, data, held, nreads, reads,
                   parquetVars, stdout>>

\* for start_col in range(0, width, x_chunk_size):
ForCol ==
    /\ cell = "fixed" /\ pc = "for_col"
    /\ IF col_iter < width
       THEN /\ start_col' = Some(col_iter)
            /\ col_iter' = col_iter + x_chunk_size
            /\ pc' = "end_col"
       ELSE /\ pc' = "for_row"
            /\ UNCHANGED <<start_col, col_iter>>
    /\ UNCHANGED <<cell, width, height, count, x_chunk_size, y_chunk_size, row_iter,
                   start_row, end_row, end_col, blockxsize, blockysize,
                   block_iter, ji, window, data, held, nreads, reads,
                   parquetVars, stdout>>

\* end_col = min(start_col + x_chunk_size, width)
EndCol ==
    /\ cell = "fixed" /\ pc = "end_col"
    /\ end_col' = Some(Min(Val(start_col) + x_chunk_size, width))
    /\ pc' = "window"
    /\ UNCHANGED <<cell, width, height, count, x_chunk_size, y_chunk_size, row_iter,
                   col_iter, start_row, end_row, start_col, blockxsize,
                   blockysize, block_iter, ji, window, data, held, nreads,
                   reads, parquetVars, stdout>>

\* Mutant: the end column is taken as inclusive.
FixedWindowInclusiveEnd(sc, sr, ec, er) == Window(sc, sr, ec - sc + 1, er - sr)

\* The window the loop builds from its four bounds.
FixedWindow(sc, sr, ec, er) == Window(sc, sr, ec - sc, er - sr)

\* window = Window(start_col, start_row, end_col - start_col, end_row - start_row)
MakeWindow ==
    /\ cell = "fixed" /\ pc = "window"
    /\ window' = Some(FixedWindow(Val(start_col), Val(start_row),
                                  Val(end_col), Val(end_row)))
    /\ pc' = "read"
    /\ UNCHANGED <<cell, width, height, count, x_chunk_size, y_chunk_size, row_iter,
                   col_iter, start_row, end_row, start_col, end_col,
                   blockxsize, blockysize, block_iter, ji, data, held, nreads,
                   reads, parquetVars, stdout>>

\* ------------------------------------------ src.read and the binding of data
\* The array a read allocates: src.read(1, window=window) in the fixed loop
\* (first band only), src.read(window=window) in the block loop (all bands).
NewArray(c, id, bands, win) ==
    IF c = "fixed" THEN Array(id, 0, win) ELSE Array(id, bands, win)

\* src.read(..., window=window) runs: the new array is allocated while `data`
\* still refers to the array of the previous read.
ReadCall ==
    /\ cell \in {"fixed", "block"} /\ pc = "read"
    /\ nreads' = nreads + 1
    /\ reads' = Append(reads, Val(window))
    /\ held' = held \cup {NewArray(cell, nreads + 1, count, Val(window))}
    /\ pc' = "bind"
    /\ UNCHANGED <<cell, width, height, count, x_chunk_size, y_chunk_size, row_iter,
                   col_iter, start_row, end_row, start_col, end_col,
                   blockxsize, blockysize, block_iter, ji, window, data,
                   parquetVars, stdout>>

\* data = <the array read>: the name is rebound, the previous array released.
BindData ==
    /\ cell \in {"fixed", "block"} /\ pc = "bind"
    /\ data' = Some(NewArray(cell, nreads, count, Val(window)))
    /\ held' = Rebind(held, data, NewArray(cell, nreads, count, Val(window)))
    /\ pc' = "print"
    /\ UNCHANGED <<cell, width, height, count, x_chunk_size, y_chunk_size, row_iter,
                   col_iter, start_row, end_row, start_col, end_col,
                   blockxsize, blockysize, block_iter, ji, window, nreads,
                   reads, parquetVars, stdout>>

\* print(data.shape)
PrintShape ==
    /\ cell \in {"fixed", "block"} /\ pc = "print"
    /\ stdout' = Append(stdout, [line |-> "shape", shape |-> Shape(Val(data))])
    /\ pc' = IF cell = "fixed" THEN "for_col" ELSE "for_block"
    /\ UNCHANGED <<cell, width, height, count, x_chunk_size, y_chunk_size, row_iter,
                   col_iter, start_row, end_row, start_col, end_col,
                   blockxsize, blockysize, block_iter, ji, window, data, held,
                   nreads, reads, parquetVars>>

\* ------------------------------------------------------ block_windows read
CeilDiv(a, b) == (a + b - 1) \div b

\* src.block_windows(1): the file's internal block grid, row-major; block
\* (i, j) starts at (i * blockysize, j * blockxsize) and is clipped to the image.
NumBlocks(w, h, bx, by) == CeilDiv(h, by) * CeilDiv(w, bx)
BlockIndex(k, w, bx) == <<k \div CeilDiv(w, bx), k % CeilDiv(w, bx)>>
BlockWindow(k, w, h, bx, by) ==
    LET i == BlockIndex(k, w, bx)[1]
        j == BlockIndex(k, w, bx)[2]
    IN  Window(j * bx, i * by, Min(bx, w - j * bx), Min(by, h - i * by))

\* with rasterio.open(cog_path) as src:
InitBlock ==
    /\ cell = "block" /\ pc = "for_block"
    /\ width \in 1..MaxDim /\ height \in 1..MaxDim /\ count \in 1..MaxBands
    /\ blockxsize \in 1..MaxChunk /\ blockysize \in 1..MaxChunk
    /\ block_iter = 0 /\ ji = None
    /\ window = None
    /\ data \in {None, Some(PriorArray(width, height))}
    /\ held = {a \in {PriorArray(width, height)} : data = Some(a)}
    /\ nreads = 0 /\ reads = <<>> /\ stdout = <<>>
    /\ FixedIdle /\ ParquetIdle

\* for ji, window in src.block_windows(1):
ForBlock ==
    /\ cell = "block" /\ pc = "for_block"
    /\ IF block_iter < NumBlocks(width, height, blockxsize, blockysize)
       THEN /\ ji' = Some(BlockIndex(block_iter, width, blockxsize))
            /\ window' = Some(BlockWindow(block_iter, width, height,
                                          blockxsize, blockysize))
            /\ block_iter' = block_iter + 1
            /\ pc' = "print_chunk"
       ELSE /\ pc' = "done"
            /\ UNCHANGED <<ji, window, block_iter>>
    /\ UNCHANGED <<cell, width, height, count, x_chunk_size, y_chunk_size,
                   row_iter, col_iter, start_row, end_row, start_col, end_col,
                   blockxsize, blockysize, data, held, nreads, reads,
                   parquetVars, stdout>>

\* print(f"Chunk's coordinates: {ji}"); print(window)
PrintChunk ==
    /\ cell = "block" /\ pc = "print_chunk"
    /\ stdout' = stdout \o << [line |-> "chunk", ji |-> Val(ji)],
                              [line |-> "window", window |-> Val(window)] >>
    /\ pc' = "read"
    /\ UNCHANGED <<cell, rasterVars, parquetVars>>

\* ------------------------------------------------------ parquet batch loop
Tags == {"forest", "other"}

\* All sequences over S of length 0..len.
RECURSIVE SeqsUpTo(_, _)
SeqsUpTo(S, len) ==
    IF len = 0 THEN {<<>>}
    ELSE LET shorter == SeqsUpTo(S, len - 1)
         IN  shorter \cup {Append(q, x) : q \in {r \in shorter : Len(r) = len - 1},
                                          x \in S}

\* The 5-partition scenario: 'forest' rows per partition.
ScenarioCounts == <<3, 0, 2, 1, 4>>
RECURSIVE SeqMax(_)
SeqMax(q) == IF q = <<>> THEN 0
             ELSE IF Head(q) > SeqMax(Tail(q)) THEN Head(q) ELSE SeqMax(Tail(q))
ScenarioBatchSize == SeqMax(ScenarioCounts)
ScenarioRows ==
    [r \in 1..(Len(ScenarioCounts) * ScenarioBatchSize) |->
        IF ((r - 1) % ScenarioBatchSize) < ScenarioCounts[((r - 1) \div ScenarioBatchSize) + 1]
        THEN "forest" ELSE "other"]

\* Mutant: every batch after the first starts one row early.
BatchOverlap(rows, bs, k) ==
    SubSeq(rows, IF k = 0 THEN 1 ELSE k * bs, Min((k + 1) * bs, Len(rows)))

\* parquet_file.iter_batches(batch_size): consecutive runs of batch_size rows,
\* the last one shorter when the rows do not divide evenly.
NumBatches(rows, bs) == CeilDiv(Len(rows), bs)
Batch(rows, bs, k) == SubSeq(rows, k * bs + 1, Min((k + 1) * bs, Len(rows)))

\* Mutant: the comparison mask is dropped, every row is counted.
CountForestAllRows(col) == Cardinality(DOMAIN col)

\* len(column[column == "forest"].index)
CountForest(col) == Cardinality({i \in DOMAIN col : col[i] = "forest"})

\* import pyarrow.parquet as pq; file_path = ...
InitParquet ==
    /\ cell = "parquet" /\ pc = "open"
    /\ \/ /\ dataset \in SeqsUpTo(Tags, MaxRows)
          /\ batch_size \in 1..MaxBatch
       \/ /\ dataset = ScenarioRows
          /\ batch_size = ScenarioBatchSize
    /\ batch_iter = 0
    /\ n = None /\ batch = None /\ column = None /\ n_forest = None
    /\ exc = None /\ calls = <<>> /\ stdout = <<>>
    /\ width = 1 /\ height = 1 /\ count = 1
    /\ window = None /\ data = None /\ held = {} /\ nreads = 0 /\ reads = <<>>
    /\ FixedIdle /\ BlockIdle

\* parquet_file = pq.ParquetFile(file_path); the for statement evaluates
\* enumerate(parquet_file.iter_batches(batch_size=...)) once.
OpenParquet ==
    /\ cell = "parquet" /\ pc = "open"
    /\ batch_iter' = 0
    /\ pc' = "for_batch"
    /\ UNCHANGED <<cell, rasterVars, dataset, batch_size, n, batch, column,
                   n_forest, exc, calls, stdout>>

\* Mutant: the iterator does not advance, the same batch is yielded again.
NextBatchNoAdvance ==
    /\ cell = "parquet" /\ pc = "for_batch"
    /\ batch_iter < NumBatches(dataset, batch_size)
    /\ n' = Some(batch_iter)
    /\ batch' = Some(Batch(dataset, batch_size, batch_iter))
    /\ calls' = Append(calls, <<"fetch", batch_iter>>)
    /\ pc' = "print_batch"
    /\ UNCHANGED <<cell, rasterVars, dataset, batch_size, batch_iter, column,
                   n_forest, exc, stdout>>

\* for n, batch in enumerate(...): the iterator yields the next batch,
NextBatch ==
    /\ cell = "parquet" /\ pc = "for_batch"
    /\ batch_iter < NumBatches(dataset, batch_size)
    /\ n' = Some(batch_iter)
    /\ batch' = Some(Batch(dataset, batch_size, batch_iter))
    /\ batch_iter' = batch_iter + 1
    /\ calls' = Append(calls, <<"fetch", batch_iter>>)
    /\ pc' = "print_batch"
    /\ UNCHANGED <<cell, rasterVars, dataset, batch_size, column, n_forest,
                   exc, stdout>>

\* ... or is exhausted: the loop ends,
EndOfData ==
    /\ cell = "parquet" /\ pc = "for_batch"
    /\ batch_iter >= NumBatches(dataset, batch_size)
    /\ pc' = "done"
    /\ UNCHANGED <<cell, rasterVars, parquetVars, stdout>>

\* Mutant: the exception is caught and the fetch is tried again.
OnErrorRetry(e) == [pc |-> "for_batch", exc |-> None]

\* Mutant: the exception is caught and the loop is left as if it had ended.
OnErrorBreak(e) == [pc |-> "done", exc |-> None]

\* What the cell does with an exception raised inside the loop: there is no
\* try/except around or inside the for statement, so it leaves the cell.
OnError(e) == [pc |-> "raised", exc |-> Some(e)]

\* ... or reading the batch raises (I/O error, malformed row group): the
\* library's exception carries its cause, and nothing in the loop catches it.
FetchFails ==
    /\ cell = "parquet" /\ pc = "for_batch"
    /\ batch_iter < NumBatches(dataset, batch_size)
    /\ calls' = Append(calls, <<"fetch", batch_iter>>)
    /\ pc' = OnError([cause |-> "read"]).pc
    /\ exc' = OnError([cause |-> "read"]).exc
    /\ UNCHANGED <<cell, rasterVars, dataset, batch_size, batch_iter, n, batch,
                   column, n_forest, stdout>>

\* print(f"Batch number {n}, n_rows: {batch.num_rows}")
PrintBatch ==
    /\ cell = "parquet" /\ pc = "print_batch"
    /\ stdout' = Append(stdout, [line |-> "batch", n |-> Val(n),
                                 n_rows |-> Len(Val(batch))])
    /\ pc' = "column"
    /\ UNCHANGED <<cell, rasterVars, parquetVars>>

\* column = batch.column("type").to_pandas()
Column ==
    /\ cell = "parquet" /\ pc = "column"
    /\ column' = Some(Val(batch))
    /\ pc' = "count"
    /\ UNCHANGED <<cell, rasterVars, dataset, batch_size, batch_iter, n, batch,
                   n_forest, exc, calls, stdout>>

\* n_forest = len(column[column == "forest"].index)
Count ==
    /\ cell = "parquet" /\ pc = "count"
    /\ n_forest' = Some(CountForest(Val(column)))
    /\ calls' = Append(calls, <<"reduce", Val(n)>>)
    /\ pc' = "print_count"
    /\ UNCHANGED <<cell, rasterVars, dataset, batch_size, batch_iter, n, batch,
                   column, exc, stdout>>

\* print(f"{n_forest} occurences of 'forest'\n")
PrintCount ==
    /\ cell = "parquet" /\ pc = "print_count"
    /\ stdout' = Append(stdout, [line |-> "forest", n_forest |-> Val(n_forest)])
    /\ calls' = Append(calls, <<"print", Val(n)>>)
    /\ pc' = "for_batch"
    /\ UNCHANGED <<cell, rasterVars, dataset, batch_size, batch_iter, n, batch,
                   column, n_forest, exc>>

\* ------------------------------------------------------------ specification
Init == InitFixed \/ InitBlock \/ InitParquet

Next == \/ ForRow \/ EndRow \/ ForCol \/ EndCol \/ MakeWindow
        \/ ForBlock \/ PrintChunk
        \/ ReadCall \/ BindData \/ PrintShape
        \/ OpenParquet \/ NextBatch \/ EndOfData \/ FetchFails
        \/ PrintBatch \/ Column \/ Count \/ PrintCount

Spec == Init /\ [][Next]_vars

\* WF: the interpreter keeps executing the cell until it ends.
FairSpec == Spec /\ WF_vars(Next)

\* ------------------------------------------------------- ghost definitions
\* The combiner of the chunked-aggregation contract (a sum) and its fold.
Combine(agg, partial) == agg + partial
RECURSIVE Fold(_, _)
Fold(agg, partials) ==
    IF partials = <<>> THEN agg
    ELSE Fold(Combine(agg, Head(partials)), Tail(partials))

\* The per-batch counts the Parquet loop printed, in order.
ForestLines == SelectSeq(stdout, LAMBDA l : l.line = "forest")
PrintedCounts == [i \in 1..Len(ForestLines) |-> ForestLines[i].n_forest]

\* The counts of the first k batches of rows cut with batch size bs.
CountsOf(rows, bs, k) == [i \in 1..k |-> CountForest(Batch(rows, bs, i - 1))]

\* ---------------------------------------------------------------- C1
\* C1: when the Parquet loop has consumed every batch, folding the per-batch
\* 'forest' counts it produced with the sum combiner gives the count of
\* 'forest' over the whole column, one count per batch; on the 5-partition
\* scenario the counts are [3,0,2,1,4] and the fold is 10.
C1_ChunkedEqualsWhole ==
    (cell = "parquet" /\ pc = "done") =>
        /\ Len(PrintedCounts) = NumBatches(dataset, batch_size)
        /\ Fold(0, PrintedCounts) = CountForest(dataset)
        /\ dataset = ScenarioRows =>
              /\ PrintedCounts = ScenarioCounts
              /\ Fold(0, PrintedCounts) = 10

C1_Witness ==
    /\ cell = "parquet" /\ pc = "done"
    /\ dataset = ScenarioRows
    /\ PrintedCounts = <<3, 0, 2, 1, 4>>
    /\ Fold(0, PrintedCounts) = 10

\* ---------------------------------------------------------------- C2
\* The calls the sequential contract prescribes for batches 0..k-1, with the
\* named last operation of each cycle.
RECURSIVE CycleCalls(_, _)
CycleCalls(k, last) ==
    IF k = 0 THEN <<>>
    ELSE CycleCalls(k - 1, last)
            \o << <<"fetch", k - 1>>, <<"reduce", k - 1>>, <<last, k - 1>> >>

IsPrefix(p, q) == Len(p) <= Len(q) /\ SubSeq(q, 1, Len(p)) = p
CallsOf(op, k) == Cardinality({i \in DOMAIN calls : calls[i] = <<op, k>>})

\* C2 as stated: when the loop has run to its end, every batch was fetched,
\* reduced and combined exactly once, in that order, batch after batch.
C2_Original ==
    (cell = "parquet" /\ pc = "done") =>
        calls = CycleCalls(NumBatches(dataset, batch_size), "combine")

\* C2 amended: the loop never combines. At every moment the calls made are a
\* prefix of fetch 0, reduce 0, print 0, fetch 1, reduce 1, print 1, ...; no
\* batch is fetched twice; and when the loop ends each batch has been fetched,
\* reduced and printed exactly once, its print preceding the next fetch.
C2_FetchReducePrint ==
    cell = "parquet" =>
        /\ IsPrefix(calls, CycleCalls(NumBatches(dataset, batch_size), "print"))
        /\ \A k \in 0..NumBatches(dataset, batch_size) :
              /\ CallsOf("fetch", k) <= 1
              /\ CallsOf("combine", k) = 0
        /\ pc = "done" =>
              calls = CycleCalls(NumBatches(dataset, batch_size), "print")

C2_Witness ==
    /\ cell = "parquet" /\ pc = "done"
    /\ NumBatches(dataset, batch_size) >= 3
    /\ calls = CycleCalls(NumBatches(dataset, batch_size), "print")

\* ---------------------------------------------------------------- C3
\* The arrays read by the loop itself (an array left by an earlier cell has id 0).
LoopArrays == {a \in held : a.id >= 1}
\* Payload size in samples: bands * rows * columns.
Size(a) == (IF a.bands = 0 THEN 1 ELSE a.bands) * a.win.width * a.win.height
ChunkSize == IF cell = "fixed" THEN x_chunk_size * y_chunk_size
             ELSE count * blockxsize * blockysize

\* C3 as stated: at most one chunk's payload is held at any time.
C3_Original ==
    cell \in {"fixed", "block"} => Cardinality(LoopArrays) <= 1

\* C3 amended: while a read is in progress the previous chunk's array is
\* still bound to `data`, so two payloads are held, those of reads i and i+1
\* and no older one; once `data` is rebound only the newest array is held.
\* Every chunk has at most x_chunk_size * y_chunk_size samples (count *
\* blockxsize * blockysize in the block loop), so the held chunk payload
\* never exceeds two chunks, however many chunks the image has.
C3_AtMostTwoHeld ==
    cell \in {"fixed", "block"} =>
        /\ Cardinality(LoopArrays) <= 2
        /\ \A a \in LoopArrays :
              /\ a.id \in {nreads - 1, nreads}
              /\ Size(a) <= ChunkSize
        /\ pc # "bind" => /\ Cardinality(held) <= 1
                          /\ \A a \in held : data = Some(a)
        /\ pc = "bind" => Cardinality(held) <= 2

C3_Witness ==
    /\ cell = "fixed" /\ pc = "bind" /\ nreads >= 3
    /\ Cardinality(LoopArrays) = 2

\* ---------------------------------------------------------------- C4
\* A fetch of batch batch_iter was attempted and the iterator did not advance.
FetchFailed == calls # <<>> /\ calls[Len(calls)] = <<"fetch", batch_iter>>

\* C4 as stated: the run ends in a Failed result whose error identifies the
\* partition whose fetch failed and which carries the partial aggregate of
\* the partitions before it.
C4_Original ==
    (cell = "parquet" /\ pc = "raised") =>
        /\ "partition" \in DOMAIN Val(exc)
        /\ Val(exc).partition = batch_iter
        /\ "aggregate" \in DOMAIN Val(exc)
        /\ Val(exc).aggregate = Fold(0, CountsOf(dataset, batch_size, batch_iter))

\* C4 amended: when the fetch of batch k fails the library's exception
\* leaves the cell uncaught, carrying only its cause. The failed fetch is
\* the last call made (no retry, no later batch touched); the counts printed
\* are exactly those of batches 0..k-1, so their sum is the count over the
\* rows before batch k; the loop variable n is still k-1 (unbound if k = 0).
C4_FailurePropagates ==
    cell = "parquet" =>
        /\ FetchFailed <=> pc = "raised"
        /\ pc = "raised" =>
              /\ exc = Some([cause |-> "read"])
              /\ calls = CycleCalls(batch_iter, "print") \o << <<"fetch", batch_iter>> >>
              /\ PrintedCounts = CountsOf(dataset, batch_size, batch_iter)
              /\ Fold(0, PrintedCounts)
                    = CountForest(SubSeq(dataset, 1, batch_iter * batch_size))
              /\ n = IF batch_iter = 0 THEN None ELSE Some(batch_iter - 1)
        /\ pc # "raised" => exc = None

C4_Witness ==
    /\ cell = "parquet" /\ pc = "raised"
    /\ NumBatches(dataset, batch_size) = 5 /\ batch_iter = 2
    /\ PrintedCounts = <<3, 0>>
    /\ Fold(0, PrintedCounts) = 3

\* ---------------------------------------------------------------- C5
\* A stand-in for the band's content: every pixel has its own value.
Pixel(r, c) == r * width + c + 1
WindowPixels(win) ==
    (win.row_off .. (win.row_off + win.height - 1))
        \X (win.col_off .. (win.col_off + win.width - 1))
RECURSIVE SumPixels(_)
SumPixels(S) ==
    IF S = {} THEN 0
    ELSE LET p == CHOOSE q \in S : TRUE
         IN  Pixel(p[1], p[2]) + SumPixels(S \ {p})

\* The partial results of the raster loop for a sum reducer, and the pixel
\* counts of the shapes it printed.
WindowSums == [i \in DOMAIN reads |-> SumPixels(WindowPixels(reads[i]))]
ShapeLines == SelectSeq(stdout, LAMBDA l : l.line = "shape")
PrintedAreas == [i \in 1..Len(ShapeLines) |->
                    ShapeLines[i].shape[1] * ShapeLines[i].shape[2]]
BatchSizes(rows) == 1..(IF Len(rows) = 0 THEN 1 ELSE Len(rows))

\* C5: the aggregate does not depend on the chunk size. Raster loop, for
\* every x_chunk_size and y_chunk_size: the sum over the windows read equals
\* the sum over the image read as one chunk, and the printed shapes add up
\* to width * height pixels. Parquet loop, for every batch_size: the sum of
\* the printed counts equals the sum obtained with any other batch size from
\* one row per batch to the whole file in one batch.
C5_ChunkSizeInvariant ==
    /\ (cell = "fixed" /\ pc = "done") =>
          /\ Fold(0, WindowSums) = SumPixels(WindowPixels(Window(0, 0, width, height)))
          /\ Fold(0, PrintedAreas) = width * height
    /\ (cell = "parquet" /\ pc = "done") =>
          \A b \in BatchSizes(dataset) :
              Fold(0, PrintedCounts)
                 = Fold(0, CountsOf(dataset, b, NumBatches(dataset, b)))

C5_Witness ==
    /\ cell = "fixed" /\ pc = "done"
    /\ width = 3 /\ height = 3 /\ x_chunk_size = 2 /\ y_chunk_size = 2
    /\ Len(reads) = 4
    /\ Fold(0, WindowSums) = 45

\* ---------------------------------------------------------------- C6
\* C6: every window of the fixed-size chunked read spans the whole image
\* width (one or more complete lines), as the text above the cell says.
C6_FullWidthChunks ==
    cell = "fixed" =>
        \A i \in DOMAIN reads :
            reads[i].col_off = 0 /\ reads[i].width = width

\* ---------------------------------------------------------------- C8
\* Idle is the cell before the loop is entered, then Processing until the
\* loop ends (Done) or an exception leaves it (Failed).
SourceExhausted ==
    \/ cell = "fixed" /\ pc = "for_row" /\ row_iter >= height
    \/ cell = "block" /\ pc = "for_block"
          /\ block_iter >= NumBlocks(width, height, blockxsize, blockysize)
    \/ cell = "parquet" /\ pc = "for_batch"
          /\ batch_iter >= NumBatches(dataset, batch_size)

\* C8: no step leaves Done or Failed, and Done is entered only from the
\* loop (Processing), at the moment its source is exhausted.
C8_TerminalStates ==
    [][ /\ pc \notin {"done", "raised"}
        /\ pc' = "done" => SourceExhausted ]_vars

C8_Witness ==
    /\ cell = "parquet" /\ pc = "done"
    /\ NumBatches(dataset, batch_size) >= 2
    /\ batch_iter = NumBatches(dataset, batch_size)

\* ---------------------------------------------------------------- C10
Inside(win) ==
    /\ win.col_off >= 0 /\ win.row_off >= 0
    /\ win.col_off + win.width <= width
    /\ win.row_off + win.height <= height

Tiling ==
    cell = "fixed" =>
        /\ \A i \in DOMAIN reads :
              /\ reads[i].width \in 1..x_chunk_size
              /\ reads[i].height \in 1..y_chunk_size
              /\ Inside(reads[i])
        /\ \A i, j \in DOMAIN reads :
              i < j =>
                 /\ WindowPixels(reads[i]) \cap WindowPixels(reads[j]) = {}
                 /\ \/ reads[i].row_off < reads[j].row_off
                    \/ /\ reads[i].row_off = reads[j].row_off
                       /\ reads[i].col_off < reads[j].col_off
        /\ Len(reads) <= CeilDiv(height, y_chunk_size) * CeilDiv(width, x_chunk_size)
        /\ pc = "done" =>
              /\ Len(reads) = CeilDiv(height, y_chunk_size) * CeilDiv(width, x_chunk_size)
              /\ UNION {WindowPixels(reads[i]) : i \in DOMAIN reads}
                    = (0..(height - 1)) \X (0..(width - 1))

====
